---- MODULE Spec2Model ----
(***************************************************************************)
(* Live coding editor: the room coordinator (CodeGateway over CodeService) *)
(* and the client-side cursor rebasing (cursorTransform, codeSlice).       *)
(*                                                                         *)
(* Texts are sequences of one-character strings.  Every await of the       *)
(* gateway on the document store is a scheduling point: a handler in       *)
(* flight is a record in `inflight` (kept in arrival order) whose pc names *)
(* the store call it is waiting on.                                        *)
(***************************************************************************)
EXTENDS Integers, Sequences, FiniteSets, TLC

\* ---------------------------------------------------------------- bounds
MaxLen == 2          \* longest text sent or stored
MaxInflight == 2     \* handlers awaiting the store at the same time
MaxTextLen == 3      \* longest text in the editor

\* ------------------------------------------------------------ value sets
NL == "\n"
\* the texts clients send to the coordinator
EditTexts == UNION {[1..n -> {"a"}] : n \in 1..MaxLen}
\* code.length > 1000000
MaxCodeLength == 1000000
\* position > 1000000
MaxCursorPosition == 1000000

Conns == {"c1", "c2"}
Rooms == {"r1", "r2"}
Undefined == "undefined"
NoCursor == -1
\* the connection whose client state is followed
Me == "c2"
\* the nickname each connection joins with
JoinNickname(c) == IF c = "c1" THEN "" ELSE "ann"
\* the cursor offsets clients report
ReportedPositions == 0..(MaxLen - 1)
\* the values of `User${Math.floor(Math.random() * 1000)}` that are drawn
Placeholders == {"User7"}

\* nickname || `User${Math.floor(Math.random() * 1000)}`
DefaultNickname(nickname, k) ==
    IF nickname # "" /\ nickname # Undefined THEN nickname ELSE k

\* the values a message body can hold: typeof v is v.type; the number v is
\* v.value + v.half / 2
Str(text) == [type |-> "string", value |-> text]
Num(n) == [type |-> "number", value |-> n, half |-> 0]
NumAndHalf(n) == [type |-> "number", value |-> n, half |-> 1]

\* ------------------------------------------------------------- the state
VARIABLES
    store,           \* code_files table: document id -> [code, language]
    expired,         \* expired[r]: the clock has passed r's expiresAt
    connectedUsers,  \* Map<string, ConnectedUser>
    roomUsers,       \* Map<string, Set<string>>
    rooms,           \* transport rooms (client.join / client.leave)
    alive,           \* alive[c]: the socket of c is connected
    inflight,        \* handlers suspended on a store call, in arrival order
    emitted,         \* events emitted by the last step
    client,          \* the redux state (codeSlice) of the client of connection Me
    editor,          \* the change the editor (CodeEditor) of that client handles
    page             \* the page of that client: its route, the state of RoomPage,
                     \* the global socket and localStorage

vars == <<store, expired, connectedUsers, roomUsers, rooms, alive,
          inflight, emitted, client, editor, page>>

\* ------------------------------------------------------------ Map helpers
Has(m, k) == k \in DOMAIN m
MapSet(m, k, v) == [x \in DOMAIN m \cup {k} |-> IF x = k THEN v ELSE m[x]]
MapDelete(m, k) == [x \in DOMAIN m \ {k} |-> m[x]]
RemoveAt(s, i) == [j \in 1..(Len(s) - 1) |-> IF j < i THEN s[j] ELSE s[j + 1]]

\* members of the roomUsers entry of r (empty when there is no entry)
Members(ru, r) == IF Has(ru, r) THEN ru[r] ELSE {}

\* ---------------------------------------------------------------- events
\* client.emit(event, payload)
ToClient(c, event, payload) == [event |-> event, to |-> {c}, data |-> payload]
\* this.server.to(roomId).emit(event, payload)
ToRoom(rs, r, event, payload) ==
    [event |-> event, room |-> r, to |-> rs[r], data |-> payload]
\* this.server.to(roomId).emit in the place of client.to(roomId).emit
ToOthers_WholeRoom(rs, c, r, event, payload) ==
    [event |-> event, room |-> r, to |-> rs[r], data |-> payload]

\* client.to(roomId).emit(event, payload)
ToOthers(rs, c, r, event, payload) ==
    [event |-> event, room |-> r, to |-> rs[r] \ {c}, data |-> payload]

ErrorEvent(c, message) == ToClient(c, "error", [message |-> message])

\* ------------------------------------------------------------- leaveRoom
\* leaveRoom that forgets roomUsersSet.delete(client.id)
RoomUsersAfterLeave_NoDelete(ru, c, r) == ru

\* roomUsersSet.delete(client.id); if (size === 0) this.roomUsers.delete(roomId)
RoomUsersAfterLeave(ru, c, r) ==
    IF ~Has(ru, r) THEN ru
    ELSE IF ru[r] \ {c} = {} THEN MapDelete(ru, r)
    ELSE MapSet(ru, r, ru[r] \ {c})

\* client.leave(roomId)
RoomsAfterLeave(rs, c, r) == [rs EXCEPT ![r] = @ \ {c}]

\* { id, nickname } of the members that have a participant record
Roster(cu, members) ==
    {[id |-> u, nickname |-> cu[u].nickname] : u \in {m \in members : Has(cu, m)}}

\* a user_left whose roster is taken before roomUsersSet.delete(client.id)
LeaveEvents_StaleRoster(cu, ru, rs, c, r) ==
    IF Has(ru, r) /\ Has(cu, c)
    THEN {ToRoom(RoomsAfterLeave(rs, c, r), r, "user_left",
                 [user |-> [id |-> c, nickname |-> cu[c].nickname],
                  users |-> Roster(cu, ru[r])])}
    ELSE {}

\* the user_left broadcast of leaveRoom
LeaveEvents(cu, ru, rs, c, r) ==
    IF Has(ru, r) /\ Has(cu, c)
    THEN {ToRoom(RoomsAfterLeave(rs, c, r), r, "user_left",
                 [user |-> [id |-> c, nickname |-> cu[c].nickname],
                  users |-> Roster(cu, ru[r] \ {c})])}
    ELSE {}


\* ------------------------------------------------------- handler records
\* the locals of a handler; wrote (its write reached the table) and noEntry
\* (the room had no entry when the join_room arrived) record its history
Handler(kind, c, r, pc) ==
    [kind |-> kind, client |-> c, roomId |-> r, pc |-> pc,
     code |-> <<>>, language |-> Undefined, nickname |-> Undefined,
     oldCode |-> <<>>, found |-> FALSE, wrote |-> FALSE, noEntry |-> FALSE]

Accept(h) == Append(inflight, h)

\* ------------------------------------------------------------- join_room
\* handleJoinRoom up to its await on getCodeFile
JoinRoom(c, r, nickname) ==
    /\ alive[c]
    /\ Len(inflight) < MaxInflight
    /\ inflight' = Accept([Handler("join_room", c, r, "getCodeFile")
                             EXCEPT !.nickname = nickname,
                                    !.noEntry = ~Has(roomUsers, r)])
    /\ emitted' = {}
    /\ UNCHANGED <<store, expired, connectedUsers, roomUsers, rooms, alive>>

\* the store answers getCodeFile(roomId) of a join_room
JoinRoomGet(i) ==
    LET h == inflight[i] IN
    /\ h.kind = "join_room" /\ h.pc = "getCodeFile"
    /\ inflight' = [inflight EXCEPT ![i] =
            IF Has(store, h.roomId)
            THEN [h EXCEPT !.pc = "resume", !.found = TRUE,
                           !.code = store[h.roomId].code,
                           !.language = store[h.roomId].language]
            ELSE [h EXCEPT !.pc = "resume", !.found = FALSE]]
    /\ emitted' = {}
    /\ UNCHANGED <<store, expired, connectedUsers, roomUsers, rooms, alive>>

\* the checks of handleJoinRoom without the one of expiresAt
JoinError_NoExpiry(h, isExpired) ==
    IF ~h.found THEN "Room not found" ELSE ""

\* if (!codeFile) 'Room not found'; if (new Date() > codeFile.expiresAt)
\* 'Room has expired'; "" when the join goes on
JoinError(h, isExpired) ==
    IF ~h.found THEN "Room not found"
    ELSE IF isExpired THEN "Room has expired"
    ELSE ""

\* handleJoinRoom after the await
JoinRoomResume(i, k) ==
    LET h == inflight[i]
        c == h.client
        r == h.roomId
    IN
    /\ h.kind = "join_room" /\ h.pc = "resume"
    /\ inflight' = RemoveAt(inflight, i)
    /\ UNCHANGED <<store, expired, alive>>
    /\ IF JoinError(h, expired[r]) # "" THEN
          /\ emitted' = {ErrorEvent(c, JoinError(h, expired[r]))}
          /\ UNCHANGED <<connectedUsers, roomUsers, rooms>>
       ELSE
          LET old == IF Has(connectedUsers, c) THEN connectedUsers[c].roomId ELSE r
              left == Has(connectedUsers, c)
              ru1 == IF left THEN RoomUsersAfterLeave(roomUsers, c, old) ELSE roomUsers
              rs1 == IF left THEN RoomsAfterLeave(rooms, c, old) ELSE rooms
              ev1 == IF left THEN LeaveEvents(connectedUsers, roomUsers, rooms, c, old) ELSE {}
              user == [id |-> c, roomId |-> r,
                       nickname |-> DefaultNickname(h.nickname, k),
                       cursorPosition |-> NoCursor]
              cu2 == MapSet(connectedUsers, c, user)
              ru2 == MapSet(ru1, r, Members(ru1, r) \cup {c})
              rs2 == [rs1 EXCEPT ![r] = @ \cup {c}]
              joined == [user |-> [id |-> c, nickname |-> user.nickname],
                         users |-> Roster(cu2, ru2[r])]
          IN
          /\ connectedUsers' = cu2
          /\ roomUsers' = ru2
          /\ rooms' = rs2
          /\ emitted' = ev1 \cup
                {ToClient(c, "joined_room",
                          [roomId |-> r, code |-> h.code, language |-> h.language]),
                 ToRoom(rs2, r, "user_joined", joined),
                 ToClient(c, "user_joined", joined)}

\* ------------------------------------------------------------ leave_room
LeaveRoom(c) ==
    /\ alive[c]
    /\ emitted' = IF Has(connectedUsers, c)
                  THEN LeaveEvents(connectedUsers, roomUsers, rooms, c, connectedUsers[c].roomId)
                  ELSE {}
    /\ roomUsers' = IF Has(connectedUsers, c)
                    THEN RoomUsersAfterLeave(roomUsers, c, connectedUsers[c].roomId)
                    ELSE roomUsers
    /\ rooms' = IF Has(connectedUsers, c)
                THEN RoomsAfterLeave(rooms, c, connectedUsers[c].roomId)
                ELSE rooms
    /\ UNCHANGED <<store, expired, connectedUsers, alive, inflight>>

\* ------------------------------------------------------------ disconnect
Disconnect(c) ==
    /\ alive[c]
    /\ alive' = [alive EXCEPT ![c] = FALSE]
    /\ emitted' = IF Has(connectedUsers, c)
                  THEN LeaveEvents(connectedUsers, roomUsers, rooms, c, connectedUsers[c].roomId)
                  ELSE {}
    /\ roomUsers' = IF Has(connectedUsers, c)
                    THEN RoomUsersAfterLeave(roomUsers, c, connectedUsers[c].roomId)
                    ELSE roomUsers
    /\ rooms' = [r \in Rooms |-> rooms[r] \ {c}]
    /\ connectedUsers' = MapDelete(connectedUsers, c)
    /\ UNCHANGED <<store, expired, inflight>>

\* ----------------------------------------------------------- code_update
\* a validation that refuses a text of the maximal length
InvalidCode_AtLimit(code) ==
    code.type # "string" \/ Len(code.value) >= MaxCodeLength

\* typeof code !== 'string' || code.length > 1000000
InvalidCode(code) ==
    code.type # "string" \/ Len(code.value) > MaxCodeLength

\* handleCodeUpdate up to its await on getCodeFile
CodeUpdate(c, r, code, language) ==
    /\ alive[c]
    /\ UNCHANGED <<store, expired, connectedUsers, roomUsers, rooms, alive>>
    /\ IF ~Has(connectedUsers, c) \/ connectedUsers[c].roomId # r THEN
          /\ emitted' = {ErrorEvent(c, "Not in room")}
          /\ UNCHANGED inflight
       ELSE IF InvalidCode(code) THEN
          /\ emitted' = {ErrorEvent(c, "Invalid code data")}
          /\ UNCHANGED inflight
       ELSE
          /\ Len(inflight) < MaxInflight
          /\ inflight' = Accept([Handler("code_update", c, r, "getCodeFile")
                                   EXCEPT !.code = code.value, !.language = language,
                                          !.nickname = connectedUsers[c].nickname])
          /\ emitted' = {}

\* the store answers getCodeFile(roomId): oldCode = oldCodeFile?.code || ''
CodeUpdateGet(i) ==
    LET h == inflight[i] IN
    /\ h.kind = "code_update" /\ h.pc = "getCodeFile"
    /\ inflight' = [inflight EXCEPT ![i] =
            [h EXCEPT !.pc = "findByPk",
                      !.oldCode = IF Has(store, h.roomId)
                                  THEN store[h.roomId].code ELSE <<>>]]
    /\ emitted' = {}
    /\ UNCHANGED <<store, expired, connectedUsers, roomUsers, rooms, alive>>

\* updateCodeFile: findByPk(id); if (!codeFile) return null
UpdateFind(i) ==
    LET h == inflight[i] IN
    /\ h.kind \in {"code_update", "language_change"} /\ h.pc = "findByPk"
    /\ inflight' = [inflight EXCEPT ![i] =
            [h EXCEPT !.pc = IF Has(store, h.roomId) THEN "update" ELSE "emit"]]
    /\ emitted' = {}
    /\ UNCHANGED <<store, expired, connectedUsers, roomUsers, rooms, alive>>

\* updateData = { code }; if (language) updateData.language = language
UpdateData(doc, code, language) ==
    [code |-> code,
     language |-> IF language # Undefined /\ language # "" THEN language
                  ELSE doc.language]

\* updateCodeFile: codeFile.update(updateData) reaches the table; a row that
\* was deleted since findByPk is not written
UpdateWrite(i) ==
    LET h == inflight[i]
        r == h.roomId
    IN
    /\ h.kind \in {"code_update", "language_change"} /\ h.pc = "update"
    /\ IF Has(store, r) THEN
          /\ store' = [store EXCEPT ![r] = UpdateData(@, h.code, h.language)]
          /\ inflight' = [inflight EXCEPT ![i] =
                [h EXCEPT !.pc = "emit", !.wrote = TRUE]]
       ELSE
          /\ inflight' = [inflight EXCEPT ![i] = [h EXCEPT !.pc = "emit"]]
          /\ UNCHANGED <<store>>
    /\ emitted' = {}
    /\ UNCHANGED <<expired, connectedUsers, roomUsers, rooms, alive>>

\* the cursor list of code_updated
AllCursors(cu, ru, r) ==
    {LET whole == [userId |-> u, position |-> cu[u].cursorPosition,
                   nickname |-> cu[u].nickname]
     IN IF "cursorHalf" \in DOMAIN cu[u]
        THEN whole @@ [half |-> cu[u].cursorHalf] ELSE whole :
        u \in {m \in Members(ru, r) : Has(cu, m) /\ cu[m].cursorPosition # NoCursor}}

\* handleCodeUpdate after await updateCodeFile
CodeUpdateEmit(i) ==
    LET h == inflight[i]
        ev == ToOthers(rooms, h.client, h.roomId, "code_updated",
                 [code |-> h.code, language |-> h.language,
                  userId |-> h.client, userNickname |-> h.nickname,
                  oldCode |-> h.oldCode,
                  allCursors |-> AllCursors(connectedUsers, roomUsers, h.roomId)])
    IN
    /\ h.kind = "code_update" /\ h.pc = "emit"
    /\ inflight' = RemoveAt(inflight, i)
    /\ emitted' = {[event |-> ev.event, room |-> ev.room, to |-> ev.to,
                     data |-> ev.data, handler |-> h]}
    /\ UNCHANGED <<store, expired, connectedUsers, roomUsers, rooms, alive>>

\* ------------------------------------------------------- language_change
\* handleLanguageChange up to its await on getCodeFile
LanguageChange(c, r, language) ==
    /\ alive[c]
    /\ UNCHANGED <<store, expired, connectedUsers, roomUsers, rooms, alive>>
    /\ IF ~Has(connectedUsers, c) \/ connectedUsers[c].roomId # r THEN
          /\ emitted' = {ErrorEvent(c, "Not in room")}
          /\ UNCHANGED inflight
       ELSE
          /\ Len(inflight) < MaxInflight
          /\ inflight' = Accept([Handler("language_change", c, r, "getCodeFile")
                                   EXCEPT !.language = language,
                                          !.nickname = connectedUsers[c].nickname])
          /\ emitted' = {}

\* the store answers getCodeFile(roomId); if (codeFile) updateCodeFile(roomId, codeFile.code, language)
LanguageChangeGet(i) ==
    LET h == inflight[i] IN
    /\ h.kind = "language_change" /\ h.pc = "getCodeFile"
    /\ IF Has(store, h.roomId)
       THEN inflight' = [inflight EXCEPT ![i] =
                [h EXCEPT !.pc = "findByPk", !.found = TRUE,
                          !.code = store[h.roomId].code]]
       ELSE inflight' = RemoveAt(inflight, i)
    /\ emitted' = {}
    /\ UNCHANGED <<store, expired, connectedUsers, roomUsers, rooms, alive>>

\* handleLanguageChange after await updateCodeFile
LanguageChangeEmit(i) ==
    LET h == inflight[i] IN
    /\ h.kind = "language_change" /\ h.pc = "emit"
    /\ inflight' = RemoveAt(inflight, i)
    /\ emitted' = {ToRoom(rooms, h.roomId, "language_changed",
                          [language |-> h.language, userId |-> h.client,
                           userNickname |-> h.nickname])}
    /\ UNCHANGED <<store, expired, connectedUsers, roomUsers, rooms, alive>>

\* --------------------------------------------------------- cursor_update
\* typeof position !== 'number' || position < 0 || position > 1000000
InvalidPosition(position) ==
    \/ position.type # "number"
    \/ position.value < 0
    \/ position.value > MaxCursorPosition
    \/ (position.value = MaxCursorPosition /\ position.half > 0)

\* a handler that drops the reported position
StoredCursor_Dropped(user, position) == user

\* user.cursorPosition = position (cursorHalf holds the half of a position
\* that is not an integer)
StoredCursor(user, position) ==
    LET whole == [id |-> user.id, roomId |-> user.roomId, nickname |-> user.nickname,
                  cursorPosition |-> position.value]
    IN IF position.half = 0 THEN whole ELSE whole @@ [cursorHalf |-> position.half]

\* { userId, position, userNickname }
CursorPayload(c, position, nickname) ==
    LET whole == [userId |-> c, position |-> position.value, userNickname |-> nickname]
    IN IF position.half = 0 THEN whole ELSE whole @@ [half |-> position.half]

CursorUpdate(c, r, position) ==
    /\ alive[c]
    /\ UNCHANGED <<store, expired, roomUsers, rooms, alive, inflight>>
    /\ IF ~Has(connectedUsers, c) \/ connectedUsers[c].roomId # r THEN
          /\ emitted' = {ErrorEvent(c, "Not in room")}
          /\ UNCHANGED connectedUsers
       ELSE IF InvalidPosition(position) THEN
          /\ emitted' = {ErrorEvent(c, "Invalid cursor position")}
          /\ UNCHANGED connectedUsers
       ELSE
          /\ connectedUsers' = [connectedUsers EXCEPT ![c] = StoredCursor(@, position)]
          /\ emitted' = {ToOthers(rooms, c, r, "cursor_updated",
                                  CursorPayload(c, position, connectedUsers[c].nickname))}

\* ------------------------------------------------------ the document store
\* a store call of a handler fails: the catch block of handleCodeUpdate and
\* handleLanguageChange reports it; handleJoinRoom has no catch block
StoreFails(i) ==
    LET h == inflight[i] IN
    /\ h.pc \in {"getCodeFile", "findByPk", "update"}
    /\ inflight' = RemoveAt(inflight, i)
    /\ emitted' = IF h.kind = "code_update"
                  THEN {ErrorEvent(h.client, "Failed to update code")}
                  ELSE IF h.kind = "language_change"
                  THEN {ErrorEvent(h.client, "Failed to change language")}
                  ELSE {}
    /\ UNCHANGED <<store, expired, connectedUsers, roomUsers, rooms, alive>>

\* the clock passes the expiresAt of document r
Expire(r) ==
    /\ ~expired[r]
    /\ expired' = [expired EXCEPT ![r] = TRUE]
    /\ emitted' = {}
    /\ UNCHANGED <<store, connectedUsers, roomUsers, rooms, alive, inflight>>

\* CleanupService.handleExpiredFiles -> CodeService.deleteExpiredFiles
DeleteExpiredFiles ==
    /\ \E r \in DOMAIN store : expired[r]
    /\ store' = [r \in {d \in DOMAIN store : ~expired[d]} |-> store[r]]
    /\ emitted' = {}
    /\ UNCHANGED <<expired, connectedUsers, roomUsers, rooms, alive, inflight>>

\* ------------------------------------------------ cursorTransform.ts
Min(a, b) == IF a < b THEN a ELSE b
Max(a, b) == IF a > b THEN a ELSE b

\* text.substring(0, position)
Substring0(text, position) == SubSeq(text, 1, Min(Max(position, 0), Len(text)))

\* text.split('\n')
RECURSIVE Split(_)
Split(text) ==
    IF \A i \in 1..Len(text) : text[i] # NL THEN <<text>>
    ELSE LET i == CHOOSE k \in 1..Len(text) :
                     text[k] = NL /\ \A j \in 1..(k - 1) : text[j] # NL
         IN <<SubSeq(text, 1, i - 1)>> \o Split(SubSeq(text, i + 1, Len(text)))

getLineAndColumn(text, position) ==
    LET lines == Split(Substring0(text, position))
    IN [line |-> Len(lines) - 1, column |-> Len(lines[Len(lines)])]

\* for (i = 0; i < line && i < lines.length; i++) position += lines[i].length + 1
RECURSIVE SumLines(_, _)
SumLines(lines, n) ==
    IF n <= 0 THEN 0 ELSE SumLines(lines, n - 1) + Len(lines[n]) + 1

getPositionFromLineColumn(text, line, column) ==
    LET lines == Split(text)
        position == SumLines(lines, Min(line, Len(lines)))
    IN IF line < Len(lines)
       THEN position + Min(column, Len(lines[line + 1]))
       ELSE position

NoOperation == [type |-> "none"]
\* operation.content || ''
Content(operation) ==
    IF "content" \in DOMAIN operation THEN operation.content ELSE <<>>

\* a delete above the cursor's line that leaves the cursor on its line number
DeleteBeforeCursorLine_SameLine(newText, operationLineCol, cursorLineCol, deleteEndLineCol) ==
    [position |-> getPositionFromLineColumn(newText,
                      cursorLineCol.line, cursorLineCol.column),
     wasUnchanged |-> FALSE]

\* a delete into the cursor's line without the case of the single newline
DeleteIntoCursorLine_AlwaysStart(operation, cursorLineCol, deleteEndLineCol) ==
    [position |-> operation.position, wasUnchanged |-> FALSE]

\* the delete ends on a line above the cursor's: the cursor moves up by the
\* number of lines deleted
DeleteBeforeCursorLine(newText, operationLineCol, cursorLineCol, deleteEndLineCol) ==
    LET linesDeleted == deleteEndLineCol.line - operationLineCol.line
    IN [position |-> getPositionFromLineColumn(newText,
                         cursorLineCol.line - linesDeleted, cursorLineCol.column),
        wasUnchanged |-> FALSE]

\* the delete starts above the cursor's line and ends on it or below it
DeleteIntoCursorLine(operation, cursorLineCol, deleteEndLineCol) ==
    IF operation.length = 1 /\ deleteEndLineCol.line = cursorLineCol.line
    THEN [position |-> operation.position + cursorLineCol.column, wasUnchanged |-> FALSE]
    ELSE [position |-> operation.position, wasUnchanged |-> FALSE]

\* a delete on the cursor's line that flags the cursor it moves to its start
\* as unchanged
DeleteOnCursorLine_SnapUnchanged(cursorPosition, operation, newText, cursorLineCol) ==
    IF operation.position + operation.length <= cursorPosition
    THEN [position |-> cursorPosition - operation.length, wasUnchanged |-> FALSE]
    ELSE IF operation.position < cursorPosition
    THEN [position |-> operation.position, wasUnchanged |-> TRUE]
    ELSE [position |-> getPositionFromLineColumn(newText,
                            cursorLineCol.line, cursorLineCol.column),
          wasUnchanged |-> TRUE]

\* the delete starts and ends on the cursor's line
DeleteOnCursorLine(cursorPosition, operation, newText, cursorLineCol) ==
    IF operation.position + operation.length <= cursorPosition
    THEN [position |-> cursorPosition - operation.length, wasUnchanged |-> FALSE]
    ELSE IF operation.position < cursorPosition
            /\ operation.position + operation.length > cursorPosition
    THEN [position |-> operation.position, wasUnchanged |-> FALSE]
    ELSE [position |-> getPositionFromLineColumn(newText,
                            cursorLineCol.line, cursorLineCol.column),
          wasUnchanged |-> TRUE]

transformCursorPosition(cursorPosition, operation, oldText, newText) ==
    LET cursorLineCol == getLineAndColumn(oldText, cursorPosition)
        operationLineCol == getLineAndColumn(oldText, operation.position)
    IN
    IF operation.type = "insert" THEN
        LET newLinesAdded == Len(Split(Content(operation))) - 1 IN
        IF operationLineCol.line # cursorLineCol.line THEN
            IF operationLineCol.line < cursorLineCol.line THEN
                IF newLinesAdded > 0
                THEN [position |-> getPositionFromLineColumn(newText,
                                      cursorLineCol.line + newLinesAdded, cursorLineCol.column),
                      wasUnchanged |-> FALSE]
                ELSE [position |-> cursorPosition + operation.length, wasUnchanged |-> FALSE]
            ELSE [position |-> cursorPosition, wasUnchanged |-> TRUE]
        ELSE IF newLinesAdded > 0 THEN
            IF operationLineCol.column <= cursorLineCol.column THEN
                LET parts == Split(Content(operation))
                    remainingTextAfterSplit == parts[Len(parts)]
                    cursorNewColumn == cursorLineCol.column - operationLineCol.column
                                        + Len(remainingTextAfterSplit)
                IN [position |-> getPositionFromLineColumn(newText,
                                    cursorLineCol.line + newLinesAdded, cursorNewColumn),
                    wasUnchanged |-> FALSE]
            ELSE [position |-> getPositionFromLineColumn(newText,
                                    cursorLineCol.line, cursorLineCol.column),
                  wasUnchanged |-> FALSE]
        ELSE
            IF operationLineCol.column <= cursorLineCol.column THEN
                LET insertionLength == IF Content(operation) # <<>>
                                       THEN Len(Content(operation)) ELSE operation.length
                    newColumn == cursorLineCol.column + insertionLength
                IN [position |-> getPositionFromLineColumn(newText, cursorLineCol.line, newColumn),
                    wasUnchanged |-> FALSE]
            ELSE [position |-> getPositionFromLineColumn(newText,
                                    cursorLineCol.line, cursorLineCol.column),
                  wasUnchanged |-> TRUE]
    ELSE IF operation.type = "delete" THEN
        LET deleteEndPos == operation.position + operation.length
            deleteEndLineCol == getLineAndColumn(oldText, deleteEndPos)
        IN
        IF deleteEndLineCol.line < cursorLineCol.line THEN
            DeleteBeforeCursorLine(newText, operationLineCol, cursorLineCol, deleteEndLineCol)
        ELSE IF operationLineCol.line < cursorLineCol.line
                /\ deleteEndLineCol.line >= cursorLineCol.line THEN
            DeleteIntoCursorLine(operation, cursorLineCol, deleteEndLineCol)
        ELSE IF operationLineCol.line = cursorLineCol.line
                /\ deleteEndLineCol.line = cursorLineCol.line THEN
            DeleteOnCursorLine(cursorPosition, operation, newText, cursorLineCol)
        ELSE [position |-> cursorPosition, wasUnchanged |-> TRUE]
    ELSE [position |-> cursorPosition, wasUnchanged |-> TRUE]

\* while (prefixLength < old.length && prefixLength < new.length && old[p] === new[p])
RECURSIVE PrefixLength(_, _, _)
PrefixLength(oldText, newText, n) ==
    IF n < Len(oldText) /\ n < Len(newText) /\ oldText[n + 1] = newText[n + 1]
    THEN PrefixLength(oldText, newText, n + 1) ELSE n

RECURSIVE SuffixLength(_, _, _, _)
SuffixLength(oldText, newText, prefixLength, n) ==
    IF /\ n < Len(oldText) - prefixLength
       /\ n < Len(newText) - prefixLength
       /\ oldText[Len(oldText) - n] = newText[Len(newText) - n]
    THEN SuffixLength(oldText, newText, prefixLength, n + 1) ELSE n

\* an insertion that reports the offset at which the inserted text ends
Insertion_AtEnd(prefixLength, newMiddle) ==
    [type |-> "insert", position |-> prefixLength + Len(newMiddle),
     length |-> Len(newMiddle), content |-> newMiddle]

\* oldMiddle is empty and newMiddle is not
Insertion(prefixLength, newMiddle) ==
    [type |-> "insert", position |-> prefixLength,
     length |-> Len(newMiddle), content |-> newMiddle]

\* newMiddle is empty and oldMiddle is not
Deletion(prefixLength, oldMiddle) ==
    [type |-> "delete", position |-> prefixLength, length |-> Len(oldMiddle)]

\* a replacement that reports the whole of the old middle as deleted
Replacement_WholeDelete(prefixLength, oldMiddle, newMiddle) ==
    LET netChange == Len(newMiddle) - Len(oldMiddle) IN
    IF netChange > 0 THEN
        [type |-> "insert", position |-> prefixLength,
         length |-> netChange, content |-> newMiddle]
    ELSE IF netChange < 0 THEN
        [type |-> "delete", position |-> prefixLength, length |-> Len(oldMiddle)]
    ELSE NoOperation

\* a replacement that reports a change of equal length as an insert
Replacement_EqualAsInsert(prefixLength, oldMiddle, newMiddle) ==
    LET netChange == Len(newMiddle) - Len(oldMiddle) IN
    IF netChange >= 0 THEN
        [type |-> "insert", position |-> prefixLength,
         length |-> netChange, content |-> newMiddle]
    ELSE [type |-> "delete", position |-> prefixLength, length |-> 0 - netChange]

\* neither middle is empty
Replacement(prefixLength, oldMiddle, newMiddle) ==
    LET netChange == Len(newMiddle) - Len(oldMiddle) IN
    IF netChange > 0 THEN
        [type |-> "insert", position |-> prefixLength,
         length |-> netChange, content |-> newMiddle]
    ELSE IF netChange < 0 THEN
        [type |-> "delete", position |-> prefixLength, length |-> 0 - netChange]
    ELSE NoOperation

\* calculateTextOperation without the test of oldText === newText and without
\* the test of newMiddle.length > 0
calculateTextOperation_EmptyInsert(oldText, newText, changePosition) ==
    LET prefixLength == PrefixLength(oldText, newText, 0)
        suffixLength == SuffixLength(oldText, newText, prefixLength, 0)
        oldMiddle == SubSeq(oldText, prefixLength + 1, Len(oldText) - suffixLength)
        newMiddle == SubSeq(newText, prefixLength + 1, Len(newText) - suffixLength)
    IN
    IF Len(oldMiddle) = 0 THEN Insertion(prefixLength, newMiddle)
    ELSE IF Len(newMiddle) = 0 THEN Deletion(prefixLength, oldMiddle)
    ELSE Replacement(prefixLength, oldMiddle, newMiddle)

calculateTextOperation(oldText, newText, changePosition) ==
    IF oldText = newText THEN NoOperation
    ELSE
    LET prefixLength == PrefixLength(oldText, newText, 0)
        suffixLength == SuffixLength(oldText, newText, prefixLength, 0)
        oldMiddle == SubSeq(oldText, prefixLength + 1, Len(oldText) - suffixLength)
        newMiddle == SubSeq(newText, prefixLength + 1, Len(newText) - suffixLength)
    IN
    IF Len(oldMiddle) = 0 /\ Len(newMiddle) > 0 THEN Insertion(prefixLength, newMiddle)
    ELSE IF Len(oldMiddle) > 0 /\ Len(newMiddle) = 0 THEN Deletion(prefixLength, oldMiddle)
    ELSE IF Len(oldMiddle) > 0 /\ Len(newMiddle) > 0
    THEN Replacement(prefixLength, oldMiddle, newMiddle)
    ELSE NoOperation

\* a batch helper that returns its results in the reverse of the input order
transformMultipleCursors_Reversed(cursors, operation, oldText, newText) ==
    [i \in DOMAIN cursors |->
        LET cursor == cursors[Len(cursors) + 1 - i]
            result == transformCursorPosition(cursor.position, operation, oldText, newText)
        IN [userId |-> cursor.userId, position |-> result.position,
            wasUnchanged |-> result.wasUnchanged]]

transformMultipleCursors(cursors, operation, oldText, newText) ==
    [i \in DOMAIN cursors |->
        LET result == transformCursorPosition(cursors[i].position, operation, oldText, newText)
        IN [userId |-> cursors[i].userId, position |-> result.position,
            wasUnchanged |-> result.wasUnchanged]]

\* ---------------------------------------------------------- CodeEditor.tsx
\* the characters of the texts in the editor
Characters == {"a", "b", NL}
\* the texts the textarea holds before and after a change
Texts == UNION {[1..n -> Characters] : n \in 0..MaxTextLen}
\* the changePosition arguments; the editor passes 0
ChangePositions == {0, 1}

\* the editor before a change event
IdleEditor ==
    [pc |-> "idle", oldText |-> <<>>, newText |-> <<>>, changePosition |-> 0,
     cursorPosition |-> 0, operation |-> NoOperation,
     result |-> [position |-> 0, wasUnchanged |-> TRUE],
     cursors |-> <<>>, results |-> <<>>]

\* handleCodeChange entered: oldCode = code, newCode = event.target.value,
\* and the cursor of another user at an offset of oldCode
ChangedEditor(oldText, newText, changePosition, cursorPosition) ==
    [IdleEditor EXCEPT !.pc = "changed", !.oldText = oldText, !.newText = newText,
                       !.changePosition = changePosition,
                       !.cursorPosition = cursorPosition]

\* const operation = calculateTextOperation(oldCode, newCode, 0)
CalculateOperation ==
    /\ editor.pc = "changed"
    /\ editor' = [editor EXCEPT !.pc = "calculated",
            !.operation = calculateTextOperation(editor.oldText, editor.newText,
                                                 editor.changePosition)]
    /\ UNCHANGED <<store, expired, connectedUsers, roomUsers, rooms, alive,
                   inflight, emitted, client, page>>

\* updateCode with the operation: transformCursorPosition(cursor.position,
\* operation, oldCode, action.payload.code)
TransformCursor ==
    /\ editor.pc = "calculated"
    /\ editor.operation # NoOperation
    /\ editor' = [editor EXCEPT !.pc = "transformed",
            !.result = transformCursorPosition(editor.cursorPosition, editor.operation,
                                               editor.oldText, editor.newText)]
    /\ UNCHANGED <<store, expired, connectedUsers, roomUsers, rooms, alive,
                   inflight, emitted, client, page>>

\* the cursor lists handed to transformMultipleCursors: the cursor of one
\* user, alone or before or after the cursor of another user
CursorLists(oldText, cursorPosition) ==
    {<<[userId |-> "c1", position |-> cursorPosition]>>}
        \cup UNION {{<<[userId |-> "c1", position |-> cursorPosition],
                        [userId |-> "c2", position |-> q]>>,
                      <<[userId |-> "c2", position |-> q],
                        [userId |-> "c1", position |-> cursorPosition]>>} :
                        q \in 0..Len(oldText)}

\* updateCode with the operation: transformMultipleCursors(cursors, operation,
\* oldCode, action.payload.code)
TransformCursors ==
    /\ editor.pc = "calculated"
    /\ editor.operation # NoOperation
    /\ \E cursors \in CursorLists(editor.oldText, editor.cursorPosition) :
         editor' = [editor EXCEPT !.pc = "batch", !.cursors = cursors,
            !.results = transformMultipleCursors(cursors, editor.operation,
                                                 editor.oldText, editor.newText)]
    /\ UNCHANGED <<store, expired, connectedUsers, roomUsers, rooms, alive,
                   inflight, emitted, client, page>>

\* ----------------------------------------------------------- codeSlice.ts
NullFile == [null |-> TRUE]
Null == "null"

initialState ==
    [currentFile |-> NullFile, isConnected |-> FALSE, isInRoom |-> FALSE,
     users |-> <<>>, currentUserId |-> Null, previousCode |-> <<>>]

setConnected(state, payload) ==
    [state EXCEPT !.isConnected = payload,
                  !.isInRoom = IF ~payload THEN FALSE ELSE @]

setInRoom(state, payload) == [state EXCEPT !.isInRoom = payload]

\* state.users = action.payload: the roster entries carry id and nickname only
setUsers(state, payload) ==
    [state EXCEPT !.users =
        [u \in {x.id : x \in payload} |->
            [nickname |-> (CHOOSE x \in payload : x.id = u).nickname,
             cursorPosition |-> NoCursor, preserveVisual |-> FALSE]]]

setCurrentUserId(state, payload) == [state EXCEPT !.currentUserId = payload]

updateUserCursor(state, userId, position) ==
    IF Has(state.users, userId)
    THEN [state EXCEPT !.users[userId].cursorPosition = position]
    ELSE state

updateLanguage(state, payload) ==
    IF state.currentFile # NullFile
    THEN [state EXCEPT !.currentFile.language = payload]
    ELSE state

resetRoomState(state) ==
    [state EXCEPT !.currentFile = NullFile, !.isInRoom = FALSE, !.users = <<>>,
                  !.currentUserId = Null, !.previousCode = <<>>]

\* an enumeration of a set of cursors
RECURSIVE SetToSeq(_)
SetToSeq(set) ==
    IF set = {} THEN <<>>
    ELSE LET x == CHOOSE y \in set : TRUE IN <<x>> \o SetToSeq(set \ {x})

\* transformedCursors.forEach(...): store each position on the user it names,
\* skipping the users in `skip`
RECURSIVE StoreTransformed(_, _, _)
StoreTransformed(users, transformed, skip) ==
    IF transformed = <<>> THEN users
    ELSE LET t == Head(transformed)
             next == IF Has(users, t.userId) /\ t.userId \notin skip
                     THEN [users EXCEPT ![t.userId].cursorPosition = t.position,
                                        ![t.userId].preserveVisual = t.wasUnchanged]
                     ELSE users
         IN StoreTransformed(next, Tail(transformed), skip)

\* payload: [code, language, fromOtherUser, fromLocalUser, operation, serverCursors]
updateCode(state, payload) ==
    IF state.currentFile = NullFile THEN state
    ELSE
    LET oldCode == state.currentFile.code
        file == [code |-> payload.code,
                 language |-> IF payload.language # Undefined /\ payload.language # ""
                              THEN payload.language ELSE state.currentFile.language]
        base == [state EXCEPT !.previousCode = oldCode, !.currentFile = file]
        serverCursors == SetToSeq(payload.serverCursors)
        cursorsToTransform ==
            SetToSeq({[userId |-> u, position |-> state.users[u].cursorPosition] :
                        u \in {x \in DOMAIN state.users :
                                  state.users[x].cursorPosition # NoCursor
                                  /\ x # state.currentUserId}})
    IN
    IF ~(payload.fromOtherUser \/ payload.fromLocalUser) THEN base
    ELSE IF Len(serverCursors) > 0 THEN
        IF payload.operation # NoOperation
        THEN [base EXCEPT !.users = StoreTransformed(state.users,
                    transformMultipleCursors(serverCursors, payload.operation,
                                             oldCode, payload.code),
                    {state.currentUserId})]
        ELSE base
    ELSE IF payload.operation # NoOperation /\ Len(cursorsToTransform) > 0
        THEN [base EXCEPT !.users = StoreTransformed(state.users,
                    transformMultipleCursors(cursorsToTransform, payload.operation,
                                             oldCode, payload.code),
                    {})]
        ELSE base

\* ------------------------------------------------------------ useSocket
\* socket.on('code_updated'): previousCode = serverOldCode || clientOldCode
OnCodeUpdated(state, data) ==
    LET clientOldCode == IF state.currentFile # NullFile
                         THEN state.currentFile.code ELSE <<>>
        previousCode == IF data.oldCode # <<>> THEN data.oldCode ELSE clientOldCode
        operation == calculateTextOperation(previousCode, data.code, 0)
    IN updateCode(state, [code |-> data.code, language |-> data.language,
                          fromOtherUser |-> TRUE, fromLocalUser |-> FALSE,
                          operation |-> operation,
                          serverCursors |-> {[userId |-> c.userId, position |-> c.position] :
                                                c \in data.allCursors}])

\* the socket.on handler of the event
OnEvent(state, m) ==
    IF m.event = "code_updated" THEN OnCodeUpdated(state, m.data)
    ELSE IF m.event = "cursor_updated"
        THEN updateUserCursor(state, m.data.userId, m.data.position)
    ELSE IF m.event = "language_changed" THEN updateLanguage(state, m.data.language)
    ELSE IF m.event \in {"user_joined", "user_left"} THEN setUsers(state, m.data.users)
    ELSE IF m.event = "joined_room"
        THEN setInRoom(updateCode(state,
                [code |-> m.data.code, language |-> m.data.language,
                 fromOtherUser |-> FALSE, fromLocalUser |-> FALSE,
                 operation |-> NoOperation, serverCursors |-> {}]), TRUE)
    ELSE state

\* the client of Me handles the event the last step sent to it (the steps of
\* the workloads below send it at most one)
Receive(state, events) ==
    LET mine == {m \in events : Me \in m.to} IN
    IF mine = {} THEN state ELSE OnEvent(state, CHOOSE m \in mine : TRUE)

\* the events of a step in the order the gateway emits them: leaveRoom's
\* user_left, then joined_room, then the two user_joined of handleJoinRoom
EmissionOrder ==
    <<"user_left", "joined_room", "user_joined", "cursor_updated",
      "code_updated", "language_changed", "error">>

RECURSIVE HandleEach(_, _)
HandleEach(state, ms) ==
    IF ms = <<>> THEN state ELSE HandleEach(OnEvent(state, Head(ms)), Tail(ms))

\* the events named `name` that the last step sent to the client of Me
EventsNamed(events, name) ==
    SetToSeq({m \in events : Me \in m.to /\ m.event = name})

RECURSIVE ReceiveInOrder(_, _, _)
ReceiveInOrder(state, events, names) ==
    IF names = <<>> THEN state
    ELSE ReceiveInOrder(HandleEach(state, EventsNamed(events, Head(names))),
                        events, Tail(names))

\* the client of Me handles every event the last step sent to it
ReceiveAll(state, events) == ReceiveInOrder(state, events, EmissionOrder)

\* ------------------------------------------------------------- session.ts
SESSION_KEY == "live-coding-session"

\* localStorage.removeItem(key)
removeItem(localStorage, key) ==
    IF Has(localStorage, key) THEN MapDelete(localStorage, key) ELSE localStorage

\* the entry holds the nickname; stale: Date.now() - timestamp > SESSION_DURATION
saveSession(localStorage, nickname) ==
    MapSet(localStorage, SESSION_KEY, [nickname |-> nickname, stale |-> FALSE])

clearSession(localStorage) == removeItem(localStorage, SESSION_KEY)

\* the value getSession returns
getSession(localStorage) ==
    IF ~Has(localStorage, SESSION_KEY) THEN Null
    ELSE IF localStorage[SESSION_KEY].stale THEN Null
    ELSE localStorage[SESSION_KEY].nickname

\* localStorage after getSession: a stale entry is cleared
AfterGetSession(localStorage) ==
    IF Has(localStorage, SESSION_KEY) /\ localStorage[SESSION_KEY].stale
    THEN clearSession(localStorage) ELSE localStorage

\* --------------------------------------------------- RoomPage, CodeEditor
\* the nicknames typed into the join form
TypedNicknames == {"", "ann"}

\* no RoomPage is mounted, no socket was created, localStorage is empty
ClosedPage ==
    [roomId |-> Null, nickname |-> "", hasJoined |-> FALSE,
     sessionLoaded |-> FALSE, socket |-> FALSE, localStorage |-> <<>>]

\* the page of Me once it has joined room r1 through the join form
JoinedPage ==
    [roomId |-> "r1", nickname |-> JoinNickname(Me), hasJoined |-> TRUE,
     sessionLoaded |-> TRUE, socket |-> TRUE,
     localStorage |-> saveSession(<<>>, JoinNickname(Me))]

\* RoomPage mounts for room r: useSocket creates the global socket once, the
\* load effect dispatches resetRoomState, the session effect reads getSession,
\* hasJoined starts false
OpenRoom(r) ==
    /\ page.roomId = Null
    /\ page' = [page EXCEPT
            !.roomId = r,
            !.nickname = IF getSession(page.localStorage) # Null
                         THEN getSession(page.localStorage) ELSE "",
            !.hasJoined = FALSE,
            !.sessionLoaded = TRUE,
            !.socket = TRUE,
            !.localStorage = AfterGetSession(page.localStorage)]
    /\ client' = resetRoomState(client)
    /\ emitted' = {}
    /\ UNCHANGED <<store, expired, connectedUsers, roomUsers, rooms, alive,
                   inflight, editor>>

\* socket.on('connect'): setConnected(true), setCurrentUserId(socket.id)
SocketConnect ==
    /\ page.socket
    /\ alive[Me]
    /\ ~client.isConnected
    /\ client' = setCurrentUserId(setConnected(client, TRUE), Me)
    /\ emitted' = {}
    /\ UNCHANGED <<store, expired, connectedUsers, roomUsers, rooms, alive,
                   inflight, editor, page>>

\* getCodeFile.fulfilled of the fetch RoomPage started on load
FetchRoom ==
    /\ page.roomId # Null
    /\ client.currentFile = NullFile
    /\ Has(store, page.roomId)
    /\ client' = [client EXCEPT
            !.currentFile = [code |-> store[page.roomId].code,
                             language |-> store[page.roomId].language],
            !.previousCode = store[page.roomId].code]
    /\ emitted' = {}
    /\ UNCHANGED <<store, expired, connectedUsers, roomUsers, rooms, alive,
                   inflight, editor, page>>

\* handleJoinRoom of RoomPage: saveSession(finalNickname), joinRoom, setHasJoined
PageJoin(nickname) ==
    /\ page.roomId # Null
    /\ client.isConnected
    /\ JoinRoom(Me, page.roomId, nickname)
    /\ page' = [page EXCEPT
            !.nickname = nickname,
            !.hasJoined = TRUE,
            !.localStorage = saveSession(AfterGetSession(page.localStorage), nickname)]
    /\ UNCHANGED <<client, editor>>

\* the auto-join effect of RoomPage: the nickname came from the saved session
AutoJoin ==
    /\ page.sessionLoaded
    /\ page.nickname # ""
    /\ client.isConnected
    /\ client.currentFile # NullFile
    /\ ~page.hasJoined
    /\ getSession(page.localStorage) = page.nickname
    /\ PageJoin(page.nickname)

\* the join form is submitted with the nickname typed into it
SubmitJoin(nickname, k) ==
    /\ client.currentFile # NullFile
    /\ ~page.hasJoined
    /\ client.isConnected
    /\ PageJoin(DefaultNickname(nickname, k))

\* handleLeaveRoom of CodeEditor: leaveRoom(), resetRoomState, the two
\* removeItem calls, navigate('/welcome'); RoomPage unmounts, and the
\* leave_room its cleanup emits finds the same state at the gateway
LeaveButton ==
    /\ page.roomId # Null
    /\ page.hasJoined
    /\ client.currentFile # NullFile
    /\ client.isInRoom
    /\ LeaveRoom(Me)
    /\ client' = resetRoomState(client)
    /\ page' = [page EXCEPT
            !.roomId = Null,
            !.nickname = "",
            !.hasJoined = FALSE,
            !.sessionLoaded = FALSE,
            !.localStorage = removeItem(removeItem(page.localStorage, "userSession"),
                                        "userNickname")]
    /\ UNCHANGED editor

\* SESSION_DURATION passes since the session was saved
SessionAges ==
    /\ Has(page.localStorage, SESSION_KEY)
    /\ ~page.localStorage[SESSION_KEY].stale
    /\ page' = [page EXCEPT !.localStorage[SESSION_KEY].stale = TRUE]
    /\ emitted' = {}
    /\ UNCHANGED <<store, expired, connectedUsers, roomUsers, rooms, alive,
                   inflight, client, editor>>

\* the state of the client of Me once both clients have joined room r1
JoinedState ==
    [currentFile |-> [code |-> <<>>, language |-> "typescript"],
     isConnected |-> TRUE, isInRoom |-> TRUE,
     users |-> [c \in Conns |->
                  [nickname |-> DefaultNickname(JoinNickname(c), "User7"),
                   cursorPosition |-> NoCursor, preserveVisual |-> FALSE]],
     currentUserId |-> Me, previousCode |-> <<>>]

\* ------------------------------------------------------------------ Init
InitialDoc == [code |-> <<>>, language |-> "typescript"]

Init ==
    /\ store = [r \in Rooms |-> InitialDoc]
    /\ expired = [r \in Rooms |-> FALSE]
    /\ connectedUsers = <<>>
    /\ roomUsers = <<>>
    /\ rooms = [r \in Rooms |-> {}]
    /\ alive = [c \in Conns |-> TRUE]
    /\ inflight = <<>>
    /\ emitted = {}
    /\ client = initialState
    /\ editor = IdleEditor
    /\ page = ClosedPage

\* ------------------------------------------------------ specifications
\* Rooms: joining, leaving and disconnecting over two rooms
Next ==
    \/ \E c \in Conns, r \in Rooms : JoinRoom(c, r, JoinNickname(c)) /\ UNCHANGED <<client, editor, page>>
    \/ \E i \in DOMAIN inflight : JoinRoomGet(i) /\ UNCHANGED <<client, editor, page>>
    \/ \E i \in DOMAIN inflight, k \in Placeholders : JoinRoomResume(i, k) /\ UNCHANGED <<client, editor, page>>
    \/ \E c \in Conns : LeaveRoom(c) /\ UNCHANGED <<client, editor, page>>
    \/ \E c \in Conns : Disconnect(c) /\ UNCHANGED <<client, editor, page>>
    \/ \E i \in DOMAIN inflight : StoreFails(i) /\ UNCHANGED <<client, editor, page>>
    \/ \E r \in Rooms : Expire(r) /\ UNCHANGED <<client, editor, page>>
    \/ DeleteExpiredFiles /\ UNCHANGED <<client, editor, page>>

Spec == Init /\ [][Next]_vars

\* both clients have joined room r1 and no handler is in flight
InitJoined ==
    /\ store = [r \in Rooms |-> InitialDoc]
    /\ expired = [r \in Rooms |-> FALSE]
    /\ connectedUsers = [c \in Conns |->
            [id |-> c, roomId |-> "r1",
             nickname |-> DefaultNickname(JoinNickname(c), "User7"),
             cursorPosition |-> NoCursor]]
    /\ roomUsers = [r \in {"r1"} |-> Conns]
    /\ rooms = [r \in Rooms |-> IF r = "r1" THEN Conns ELSE {}]
    /\ alive = [c \in Conns |-> TRUE]
    /\ inflight = <<>>
    /\ emitted = {}
    /\ client = JoinedState
    /\ editor = IdleEditor
    /\ page = JoinedPage

\* Editing: code updates of room r1 against store failures and the expiry
\* sweep
NextEdit ==
    \/ \E c \in Conns, t \in EditTexts : CodeUpdate(c, "r1", Str(t), Undefined) /\ UNCHANGED <<client, editor, page>>
    \/ \E i \in DOMAIN inflight : CodeUpdateGet(i) /\ UNCHANGED <<client, editor, page>>
    \/ \E i \in DOMAIN inflight : UpdateFind(i) /\ UNCHANGED <<client, editor, page>>
    \/ \E i \in DOMAIN inflight : UpdateWrite(i) /\ UNCHANGED <<client, editor, page>>
    \/ \E i \in DOMAIN inflight : CodeUpdateEmit(i) /\ UNCHANGED <<client, editor, page>>
    \/ \E i \in DOMAIN inflight : StoreFails(i) /\ UNCHANGED <<client, editor, page>>
    \/ Expire("r1") /\ UNCHANGED <<client, editor, page>>
    \/ DeleteExpiredFiles /\ UNCHANGED <<client, editor, page>>

SpecEdit == InitJoined /\ [][NextEdit]_vars

\* Traffic: code, language and cursor events of room r1 against leaving members
NextTraffic ==
    \/ \E c \in Conns : LeaveRoom(c) /\ UNCHANGED <<client, editor, page>>
    \/ \E c \in Conns, t \in EditTexts : CodeUpdate(c, "r1", Str(t), Undefined) /\ UNCHANGED <<client, editor, page>>
    \/ \E i \in DOMAIN inflight : CodeUpdateGet(i) /\ UNCHANGED <<client, editor, page>>
    \/ \E i \in DOMAIN inflight : UpdateFind(i) /\ UNCHANGED <<client, editor, page>>
    \/ \E i \in DOMAIN inflight : UpdateWrite(i) /\ UNCHANGED <<client, editor, page>>
    \/ \E i \in DOMAIN inflight : CodeUpdateEmit(i) /\ UNCHANGED <<client, editor, page>>
    \/ \E c \in Conns : LanguageChange(c, "r1", "python") /\ UNCHANGED <<client, editor, page>>
    \/ \E i \in DOMAIN inflight : LanguageChangeGet(i) /\ UNCHANGED <<client, editor, page>>
    \/ \E i \in DOMAIN inflight : LanguageChangeEmit(i) /\ UNCHANGED <<client, editor, page>>
    \/ \E c \in Conns, p \in ReportedPositions : CursorUpdate(c, "r1", Num(p)) /\ UNCHANGED <<client, editor, page>>

SpecTraffic == InitJoined /\ [][NextTraffic]_vars

\* Client: the client of Me follows the edits and cursor reports of the other
\* member of room r1
NextClient ==
    \/ \E c \in Conns \ {Me}, t \in EditTexts :
            CodeUpdate(c, "r1", Str(t), Undefined) /\ UNCHANGED <<client, editor, page>>
    \/ \E i \in DOMAIN inflight : CodeUpdateGet(i) /\ UNCHANGED <<client, editor, page>>
    \/ \E i \in DOMAIN inflight : UpdateFind(i) /\ UNCHANGED <<client, editor, page>>
    \/ \E i \in DOMAIN inflight : UpdateWrite(i) /\ UNCHANGED <<client, editor, page>>
    \/ \E i \in DOMAIN inflight : CodeUpdateEmit(i) /\ client' = Receive(client, emitted') /\ UNCHANGED <<editor, page>>
    \/ \E c \in Conns \ {Me}, p \in ReportedPositions :
            CursorUpdate(c, "r1", Num(p)) /\ client' = Receive(client, emitted') /\ UNCHANGED <<editor, page>>

SpecClient == InitJoined /\ [][NextClient]_vars

\* Room: members of room r1 edit while connections join, leave and disconnect
NextRoom ==
    \/ \E c \in Conns, r \in Rooms : JoinRoom(c, r, JoinNickname(c)) /\ UNCHANGED <<client, editor, page>>
    \/ \E i \in DOMAIN inflight : JoinRoomGet(i) /\ UNCHANGED <<client, editor, page>>
    \/ \E i \in DOMAIN inflight, k \in Placeholders : JoinRoomResume(i, k) /\ UNCHANGED <<client, editor, page>>
    \/ \E c \in Conns : LeaveRoom(c) /\ UNCHANGED <<client, editor, page>>
    \/ \E c \in Conns : Disconnect(c) /\ UNCHANGED <<client, editor, page>>
    \/ \E c \in Conns, t \in EditTexts : CodeUpdate(c, "r1", Str(t), Undefined) /\ UNCHANGED <<client, editor, page>>
    \/ \E i \in DOMAIN inflight : CodeUpdateGet(i) /\ UNCHANGED <<client, editor, page>>
    \/ \E i \in DOMAIN inflight : UpdateFind(i) /\ UNCHANGED <<client, editor, page>>
    \/ \E i \in DOMAIN inflight : UpdateWrite(i) /\ UNCHANGED <<client, editor, page>>
    \/ \E i \in DOMAIN inflight : CodeUpdateEmit(i) /\ UNCHANGED <<client, editor, page>>

SpecRoom == InitJoined /\ [][NextRoom]_vars

\* the positions of cursor_update messages: offsets, and values at and beyond
\* the limits of the validation
CursorInputs ==
    {Num(p) : p \in ReportedPositions}
        \cup {Num(MaxCursorPosition), Num(MaxCursorPosition + 1), Num(0 - 1),
              NumAndHalf(1), Str(<<"1">>)}

\* Cursor: connections that are members of room r1, have left it or have
\* disconnected report cursors of every kind
NextCursor ==
    \/ \E c \in Conns : LeaveRoom(c) /\ UNCHANGED <<client, editor, page>>
    \/ \E c \in Conns : Disconnect(c) /\ UNCHANGED <<client, editor, page>>
    \/ \E c \in Conns, r \in Rooms, position \in CursorInputs :
            CursorUpdate(c, r, position) /\ UNCHANGED <<client, editor, page>>

SpecCursor == InitJoined /\ [][NextCursor]_vars

\* the text of n characters
Run(n) == [i \in 1..n |-> "a"]

\* the codes of code_update messages at and beyond the limits of the validation
CodeInputs ==
    {Str(Run(MaxCodeLength)), Str(Run(MaxCodeLength + 1)), Num(7)}

\* Limit: a member of room r1 sends codes at and beyond the limits
NextLimit ==
    \/ \E c \in Conns \ {Me}, code \in CodeInputs :
            CodeUpdate(c, "r1", code, Undefined) /\ UNCHANGED <<client, editor, page>>
    \/ \E i \in DOMAIN inflight : CodeUpdateGet(i) /\ UNCHANGED <<client, editor, page>>
    \/ \E i \in DOMAIN inflight : UpdateFind(i) /\ UNCHANGED <<client, editor, page>>
    \/ \E i \in DOMAIN inflight : UpdateWrite(i) /\ UNCHANGED <<client, editor, page>>
    \/ \E i \in DOMAIN inflight : CodeUpdateEmit(i) /\ UNCHANGED <<client, editor, page>>

SpecLimit == InitJoined /\ [][NextLimit]_vars

\* the event loop runs a handler whose awaited store call has returned
Continue ==
    \E i \in DOMAIN inflight :
        /\ \/ \E k \in Placeholders : JoinRoomResume(i, k)
           \/ CodeUpdateEmit(i)
           \/ LanguageChangeEmit(i)
        /\ UNCHANGED <<client, editor, page>>

\* Live: one request at a time, each awaiting the document store.  The event
\* loop is fair to the handlers; nothing makes the store answer.
NextLive ==
    \/ \E c \in Conns, r \in Rooms :
            inflight = <<>> /\ JoinRoom(c, r, JoinNickname(c)) /\ UNCHANGED <<client, editor, page>>
    \/ \E i \in DOMAIN inflight : JoinRoomGet(i) /\ UNCHANGED <<client, editor, page>>
    \/ \E c \in Conns, t \in EditTexts :
            inflight = <<>> /\ CodeUpdate(c, "r1", Str(t), Undefined) /\ UNCHANGED <<client, editor, page>>
    \/ \E i \in DOMAIN inflight : CodeUpdateGet(i) /\ UNCHANGED <<client, editor, page>>
    \/ \E i \in DOMAIN inflight : UpdateFind(i) /\ UNCHANGED <<client, editor, page>>
    \/ \E i \in DOMAIN inflight : UpdateWrite(i) /\ UNCHANGED <<client, editor, page>>
    \/ \E c \in Conns :
            inflight = <<>> /\ LanguageChange(c, "r1", "python") /\ UNCHANGED <<client, editor, page>>
    \/ \E i \in DOMAIN inflight : LanguageChangeGet(i) /\ UNCHANGED <<client, editor, page>>
    \/ \E i \in DOMAIN inflight : StoreFails(i) /\ UNCHANGED <<client, editor, page>>
    \/ Continue

SpecLive == InitJoined /\ [][NextLive]_vars /\ WF_vars(Continue)

\* the texts of the edits that replace characters
RebaseTexts == {<<"a">>, <<"b">>, <<"a", "b">>}

\* Rebase: the client of Me follows edits of the other member of room r1
\* that insert, delete and replace characters, and its cursor reports
NextRebase ==
    \/ \E c \in Conns \ {Me}, t \in RebaseTexts :
            CodeUpdate(c, "r1", Str(t), Undefined) /\ UNCHANGED <<client, editor, page>>
    \/ \E i \in DOMAIN inflight : CodeUpdateGet(i) /\ UNCHANGED <<client, editor, page>>
    \/ \E i \in DOMAIN inflight : UpdateFind(i) /\ UNCHANGED <<client, editor, page>>
    \/ \E i \in DOMAIN inflight : UpdateWrite(i) /\ UNCHANGED <<client, editor, page>>
    \/ \E i \in DOMAIN inflight :
            CodeUpdateEmit(i) /\ client' = Receive(client, emitted') /\ UNCHANGED <<editor, page>>
    \/ \E c \in Conns \ {Me}, p \in ReportedPositions :
            CursorUpdate(c, "r1", Num(p)) /\ client' = Receive(client, emitted')
                /\ UNCHANGED <<editor, page>>

SpecRebase == InitJoined /\ [][NextRebase]_vars

\* Page: the client of Me opens rooms, joins through the form or the saved
\* session and leaves with the leave button, while c1 joins, leaves and
\* reports cursors
NextPage ==
    \/ \E r \in Rooms : OpenRoom(r)
    \/ SocketConnect
    \/ FetchRoom
    \/ AutoJoin
    \/ \E n \in TypedNicknames, k \in Placeholders : SubmitJoin(n, k)
    \/ LeaveButton
    \/ SessionAges
    \/ \E i \in DOMAIN inflight : JoinRoomGet(i) /\ UNCHANGED <<client, editor, page>>
    \/ \E i \in DOMAIN inflight, k \in Placeholders :
            JoinRoomResume(i, k) /\ client' = ReceiveAll(client, emitted')
                /\ UNCHANGED <<editor, page>>
    \/ \E r \in Rooms : JoinRoom("c1", r, JoinNickname("c1")) /\ UNCHANGED <<client, editor, page>>
    \/ LeaveRoom("c1") /\ client' = ReceiveAll(client, emitted') /\ UNCHANGED <<editor, page>>
    \/ \E r \in Rooms, p \in ReportedPositions :
            CursorUpdate("c1", r, Num(p)) /\ client' = ReceiveAll(client, emitted')
                /\ UNCHANGED <<editor, page>>

SpecPage == Init /\ [][NextPage]_vars

\* Roster: the members of room r1 report cursors, join again, change rooms
\* and leave
NextRoster ==
    \/ \E c \in Conns, r \in Rooms : JoinRoom(c, r, JoinNickname(c)) /\ UNCHANGED <<client, editor, page>>
    \/ \E i \in DOMAIN inflight : JoinRoomGet(i) /\ UNCHANGED <<client, editor, page>>
    \/ \E i \in DOMAIN inflight, k \in Placeholders :
            JoinRoomResume(i, k) /\ client' = ReceiveAll(client, emitted')
                /\ UNCHANGED <<editor, page>>
    \/ \E c \in Conns : LeaveRoom(c) /\ client' = ReceiveAll(client, emitted')
                /\ UNCHANGED <<editor, page>>
    \/ \E c \in Conns, p \in ReportedPositions :
            CursorUpdate(c, "r1", Num(p)) /\ client' = ReceiveAll(client, emitted')
                /\ UNCHANGED <<editor, page>>

SpecRoster == InitJoined /\ [][NextRoster]_vars

\* Text: the editor handles one change of its text, from every text to every
\* text, with a cursor at every offset of the old text
InitText ==
    /\ store = [r \in Rooms |-> InitialDoc]
    /\ expired = [r \in Rooms |-> FALSE]
    /\ connectedUsers = <<>>
    /\ roomUsers = <<>>
    /\ rooms = [r \in Rooms |-> {}]
    /\ alive = [c \in Conns |-> TRUE]
    /\ inflight = <<>>
    /\ emitted = {}
    /\ client = initialState
    /\ page = ClosedPage
    /\ \E oldText \in Texts, newText \in Texts, changePosition \in ChangePositions :
         \E cursorPosition \in 0..Len(oldText) :
            editor = ChangedEditor(oldText, newText, changePosition, cursorPosition)

NextText ==
    \/ CalculateOperation
    \/ TransformCursor
    \/ TransformCursors

SpecText == InitText /\ [][NextText]_vars

\* ---------------------------------------------------------------- claims
\* the handlers of connection c that are still in flight
InFlightOf(c) == {i \in DOMAIN inflight : inflight[i].client = c}

\* this step accepted a code_update or language_change of c naming r
AcceptedStep(c, r) ==
    /\ Len(inflight') = Len(inflight) + 1
    /\ inflight'[Len(inflight')].kind \in {"code_update", "language_change"}
    /\ inflight'[Len(inflight')].client = c
    /\ inflight'[Len(inflight')].roomId = r

\* this step stored and broadcast a cursor_update of c naming r
CursorStep(c, r) ==
    \E m \in emitted' : m.event = "cursor_updated" /\ m.data.userId = c /\ m.room = r

\* handler i wrote the document in this step
WriteStep(i) ==
    /\ i \in DOMAIN inflight /\ i \in DOMAIN inflight'
    /\ inflight[i].pc = "update"
    /\ inflight'[i].pc = "emit"
    /\ inflight'[i].wrote

\* handler i broadcast code_updated in this step
EmitStep(i) ==
    /\ i \in DOMAIN inflight
    /\ inflight[i].kind = "code_update" /\ inflight[i].pc = "emit"
    /\ inflight' = RemoveAt(inflight, i)
    /\ \E m \in emitted' : m.event = "code_updated" /\ m.handler = inflight[i]

\* C1: a code_update, cursor_update or language_change naming room r from a
\* connection that is not in r's membership set is rejected: it is neither
\* accepted for processing nor stored and broadcast.
C1_NotInRoomRejected ==
    [][\A c \in Conns, r \in Rooms :
          c \notin Members(roomUsers, r) => ~AcceptedStep(c, r) /\ ~CursorStep(c, r)]_vars

\* C2: the oldCode an edit will broadcast is the text that was stored
\* immediately before that edit's own write.
C2_OldCodeIsTextBeforeOwnWrite ==
    [][\A i \in DOMAIN inflight :
          WriteStep(i) /\ inflight[i].kind = "code_update"
              => inflight[i].oldCode = store[inflight[i].roomId].code]_vars

\* C3: the store write of a language_change leaves the stored text as it was.
C3_LanguageChangeKeepsText ==
    [][\A i \in DOMAIN inflight :
          WriteStep(i) /\ inflight[i].kind = "language_change"
              => store'[inflight[i].roomId].code = store[inflight[i].roomId].code]_vars

\* C4: a code_updated is broadcast only for an edit whose text was persisted.
C4_BroadcastOnlyIfPersisted ==
    \A m \in emitted : m.event = "code_updated" => m.handler.wrote

\* C5: once a connection's disconnect has been handled and none of its
\* handlers is in flight, it is in no membership set and has no record.
C5_DisconnectedIsGone ==
    \A c \in Conns :
        ~alive[c] /\ InFlightOf(c) = {}
            => ~Has(connectedUsers, c) /\ \A r \in Rooms : c \notin Members(roomUsers, r)

\* C6: each connection belongs to at most one room's membership set.
C6_AtMostOneRoom ==
    \A c \in Conns : Cardinality({r \in Rooms : c \in Members(roomUsers, r)}) <= 1

\* a join_room of a member of another room has just moved it: the old room
\* was told user_left and the caller joined_room
C6_Witness ==
    \E c \in Conns, r1 \in Rooms, r2 \in Rooms :
        /\ r1 # r2
        /\ c \in Members(roomUsers, r2)
        /\ \E m \in emitted : m.event = "user_left" /\ m.room = r1 /\ m.data.user.id = c
        /\ \E m \in emitted : m.event = "joined_room" /\ m.to = {c} /\ m.data.roomId = r2

\* C7: a participant record of c with room r exists exactly when c is in r's
\* membership set.
C7_RecordIffMember ==
    \A c \in Conns, r \in Rooms :
        (Has(connectedUsers, c) /\ connectedUsers[c].roomId = r)
            <=> c \in Members(roomUsers, r)

\* an edit of the same room that arrived before handler i and has not yet
\* reached the given stage
EarlierPending(i, stages) ==
    \E j \in 1..(i - 1) :
        /\ inflight[j].kind = "code_update"
        /\ inflight[j].roomId = inflight[i].roomId
        /\ inflight[j].pc \in stages

\* C8: the store writes and the code_updated broadcasts of the edits of one
\* room happen in the order in which the edits arrived.
C8_EditsInArrivalOrder ==
    [][\A i \in DOMAIN inflight :
          /\ WriteStep(i) /\ inflight[i].kind = "code_update"
                => ~EarlierPending(i, {"getCodeFile", "findByPk", "update"})
          /\ EmitStep(i)
                => ~EarlierPending(i, {"getCodeFile", "findByPk", "update", "emit"})]_vars

\* the offset of a cursor rebased across the operation extracted from (old, new)
Rebased(position, oldText, newText) ==
    LET operation == calculateTextOperation(oldText, newText, 0) IN
    IF operation = NoOperation THEN position
    ELSE transformCursorPosition(position, operation, oldText, newText).position

\* C9: the cursor list of a code_updated holds, for each member other than
\* the author that has a known cursor, that cursor rebased across the edit.
C9_BroadcastCursorsRebased ==
    \A m \in emitted :
        m.event = "code_updated" =>
            m.data.allCursors =
                {[userId |-> u,
                  position |-> Rebased(connectedUsers[u].cursorPosition,
                                       m.data.oldCode, m.data.code),
                  nickname |-> connectedUsers[u].nickname] :
                    u \in {x \in Members(roomUsers, m.room) \ {m.data.userId} :
                              Has(connectedUsers, x)
                              /\ connectedUsers[x].cursorPosition # NoCursor}}

\* the cursor the client holds for participant u
CursorHeld(state, u) ==
    IF Has(state.users, u) THEN state.users[u].cursorPosition ELSE NoCursor

\* C10: applying a code_updated of author A leaves the cursor the receiving
\* client holds for A as it was.
C10_AuthorCursorNotRebased ==
    [][\A m \in emitted' :
          m.event = "code_updated" /\ Me \in m.to
              => CursorHeld(client', m.data.userId) = CursorHeld(client, m.data.userId)]_vars

\* C11: a code_updated is addressed to exactly the members of its room at
\* broadcast time other than the author.
C11_CodeUpdatedToOtherMembers ==
    \A m \in emitted :
        m.event = "code_updated" => m.to = Members(roomUsers, m.room) \ {m.data.userId}

\* an edit of a member has been broadcast to the other member of the room
C11_Witness ==
    \E m \in emitted :
        /\ m.event = "code_updated"
        /\ m.data.userId \in Members(roomUsers, m.room)
        /\ m.to # {}
        /\ m.data.userId \notin m.to

\* handler i, a join_room, ran from its await to its end in this step
ResumeStep(i) ==
    /\ i \in DOMAIN inflight
    /\ inflight[i].kind = "join_room" /\ inflight[i].pc = "resume"
    /\ inflight' = RemoveAt(inflight, i)

JoinErrors == {"Room not found", "Room has expired"}

\* C12: a join_room whose document does not exist or has expired sends only
\* an error to the caller and changes no membership set, participant record,
\* transport room or document.
C12_FailedJoinChangesNothing ==
    [][\A i \in DOMAIN inflight :
          ResumeStep(i) /\ (~Has(store, inflight[i].roomId) \/ expired[inflight[i].roomId])
              => /\ \E message \in JoinErrors :
                        emitted' = {ErrorEvent(inflight[i].client, message)}
                 /\ UNCHANGED <<connectedUsers, roomUsers, rooms, store>>]_vars

\* a member of a room that has not expired has just been refused by the
\* other room, which has, and is still a member
C12_Witness ==
    \E c \in Conns, r \in Rooms :
        /\ c \in Members(roomUsers, r) /\ ~expired[r]
        /\ Has(connectedUsers, c) /\ connectedUsers[c].roomId = r
        /\ emitted = {ErrorEvent(c, "Room has expired")}

\* the user_joined roster of room r: its members with their nicknames
RosterOf(cu, ru, r) ==
    {[id |-> u, nickname |-> cu[u].nickname] : u \in Members(ru, r)}

\* C13: a successful join_room adds the caller to the membership, sends it
\* joined_room with the stored code and language, and sends the caller and
\* every other member a user_joined whose roster is exactly the membership
\* after the join, every nickname non-empty.
C13_SuccessfulJoin ==
    [][\A i \in DOMAIN inflight :
          ResumeStep(i) /\ JoinError(inflight[i], expired[inflight[i].roomId]) = ""
              => LET c == inflight[i].client
                     r == inflight[i].roomId
                 IN /\ c \in Members(roomUsers', r)
                    /\ ToClient(c, "joined_room",
                                [roomId |-> r, code |-> store[r].code,
                                 language |-> store[r].language]) \in emitted'
                    /\ \E m \in emitted' :
                          /\ m.event = "user_joined"
                          /\ Members(roomUsers', r) \subseteq m.to
                          /\ \A u \in Members(roomUsers', r) : Has(connectedUsers', u)
                          /\ m.data.users = RosterOf(connectedUsers', roomUsers', r)
                          /\ \A x \in m.data.users : x.nickname \notin {"", Undefined}]_vars

\* C14: when a member leaves a room (leave_room, disconnect), every remaining
\* member is sent a user_left whose roster is exactly the remaining
\* membership; and a room entry exists only while its set is non-empty.
C14_LeaveToldToRemaining ==
    [][/\ \A c \in Conns, r \in Rooms :
              c \in Members(roomUsers, r) /\ c \notin Members(roomUsers', r)
              /\ Members(roomUsers', r) # {}
                  => \E m \in emitted' :
                        /\ m.event = "user_left" /\ m.room = r
                        /\ m.data.user.id = c
                        /\ Members(roomUsers', r) \subseteq m.to
                        /\ \A u \in Members(roomUsers', r) : Has(connectedUsers', u)
                        /\ m.data.users = RosterOf(connectedUsers', roomUsers', r)
       /\ \A r \in DOMAIN roomUsers' : roomUsers'[r] # {}]_vars

\* a member has just left a room and the one who remains was told
C14_Witness ==
    \E m \in emitted :
        /\ m.event = "user_left"
        /\ m.data.user.id \notin Members(roomUsers, m.room)
        /\ Members(roomUsers, m.room) # {}
        /\ m.to = Members(roomUsers, m.room)
        /\ m.data.users = RosterOf(connectedUsers, roomUsers, m.room)

\* C15: only the write of an edit or of a language change (and the expiry
\* sweep) changes the stored documents, so join_room, leave_room, disconnect
\* and cursor_update never do; and a join_room that arrived when the room had
\* no entry and completes for an unexpired document receives the stored text.
C15_DocumentOutlivesRoom ==
    [][/\ store' # store
            => \/ \E i \in DOMAIN inflight : WriteStep(i)
               \/ \E r \in DOMAIN store : expired[r] /\ ~Has(store', r)
       /\ \A i \in DOMAIN inflight :
             LET r == inflight[i].roomId IN
             ResumeStep(i) /\ inflight[i].noEntry /\ Has(store, r) /\ ~expired[r]
                 => \E m \in emitted' :
                       /\ m.event = "joined_room" /\ m.to = {inflight[i].client}
                       /\ m.data.roomId = r
                       /\ m.data.code = store[r].code]_vars

\* C16: a valid cursor_update of a member of room r1 stores the reported
\* position on the sender's record only, as it is, leaves the documents as
\* they are, and sends cursor_updated with that position to the other
\* members of the room and to nobody else.
C16_CursorStoredAndRelayed ==
    [][\A c \in Conns, p \in ReportedPositions :
          CursorUpdate(c, "r1", Num(p)) /\ c \in Members(roomUsers, "r1")
              => /\ DOMAIN connectedUsers' = DOMAIN connectedUsers
                 /\ \A u \in DOMAIN connectedUsers \ {c} :
                       connectedUsers'[u] = connectedUsers[u]
                 /\ connectedUsers'[c] =
                       [id |-> c, roomId |-> "r1",
                        nickname |-> connectedUsers[c].nickname,
                        cursorPosition |-> p]
                 /\ store' = store
                 /\ \E m \in emitted' :
                       /\ emitted' = {m}
                       /\ m.event = "cursor_updated"
                       /\ m.to = Members(roomUsers, "r1") \ {c}
                       /\ m.data = [userId |-> c, position |-> p,
                                    userNickname |-> connectedUsers[c].nickname]]_vars

\* a member has just reported a cursor to the other member, whose own cursor
\* is another one
C16_Witness ==
    \E m \in emitted :
        /\ m.event = "cursor_updated"
        /\ m.data.userId \in Members(roomUsers, m.room)
        /\ connectedUsers[m.data.userId].cursorPosition = m.data.position
        /\ \E u \in m.to :
              /\ u # m.data.userId
              /\ connectedUsers[u].cursorPosition \notin {NoCursor, m.data.position}

\* the positions the validation is to refuse: not a number, negative, not an
\* integer, beyond the limit
RefusedPositions ==
    {Str(<<"1">>), Num(0 - 1), NumAndHalf(1), Num(MaxCursorPosition + 1)}

\* C18: a cursor_update of a member whose position is not a number, is
\* negative, is not an integer or exceeds 1,000,000 sends an error to the
\* sender only, stores nothing and broadcasts nothing.
C18_BadCursorRejected ==
    [][\A c \in Conns, position \in RefusedPositions :
          CursorUpdate(c, "r1", position) /\ c \in Members(roomUsers, "r1")
              => /\ connectedUsers' = connectedUsers
                 /\ \E m \in emitted' :
                       emitted' = {m} /\ m.event = "error" /\ m.to = {c}]_vars

\* the codes the validation is to refuse: not a string, one character beyond
\* the limit
RefusedCodes == {Num(7), Str(Run(MaxCodeLength + 1))}

\* C17: a code_update of a member whose code is not a string or is longer
\* than 1,000,000 characters gets error 'Invalid code data', is not processed
\* (so nothing is stored or broadcast), and a code of exactly 1,000,000
\* characters is accepted for processing.
C17_CodeValidation ==
    [][\A c \in Conns :
          c \in Members(roomUsers, "r1") =>
            /\ \A code \in RefusedCodes :
                  CodeUpdate(c, "r1", code, Undefined)
                      => /\ emitted' = {ErrorEvent(c, "Invalid code data")}
                         /\ inflight' = inflight
                         /\ store' = store
            /\ CodeUpdate(c, "r1", Str(Run(MaxCodeLength)), Undefined)
                  => /\ emitted' = {}
                     /\ Len(inflight') = Len(inflight) + 1
                     /\ inflight'[Len(inflight')].kind = "code_update"
                     /\ inflight'[Len(inflight')].client = c
                     /\ Len(inflight'[Len(inflight')].code) = MaxCodeLength]_vars

\* the code of a member has just been refused: nothing is in flight and the
\* document is as it was
C17_Witness ==
    \E c \in Members(roomUsers, "r1") :
        /\ emitted = {ErrorEvent(c, "Invalid code data")}
        /\ inflight = <<>>
        /\ store["r1"] = InitialDoc

\* C19: every join_room, code_update and language_change that was accepted
\* for processing eventually completes.
C19_HandlersComplete ==
    \A c \in Conns : (InFlightOf(c) # {}) ~> (InFlightOf(c) = {})

\* the connections a roster or cursor list of event m names
Listed(m) ==
    IF m.event \in {"user_joined", "user_left"} THEN {x.id : x \in m.data.users}
    ELSE IF m.event = "code_updated" THEN {x.userId : x \in m.data.allCursors}
    ELSE {}

\* c has disconnected and its code_update is in flight or has just been
\* broadcast: a disconnected connection sends no new message, so the edit
\* passed the membership check before the disconnect
DisconnectedAuthor(c) ==
    /\ ~alive[c]
    /\ \/ \E i \in InFlightOf(c) : inflight[i].kind = "code_update"
       \/ \E m \in emitted : m.event = "code_updated" /\ m.data.userId = c

\* C20: the edit of an author that disconnected before its write finished is
\* still written and broadcast to the remaining members, and no roster or
\* cursor list sent after the disconnect names the author.
C20_EditOutlivesAuthor ==
    \A c \in Conns :
        DisconnectedAuthor(c) =>
            \A m \in emitted :
                /\ m.event = "code_updated" /\ m.data.userId = c
                      => m.handler.wrote /\ m.to = Members(roomUsers, m.room) \ {c}
                /\ c \notin Listed(m)

\* ------------------------------------------------ claims on cursorTransform
\* the editor has calculated the operation of its change
Calculated == editor.pc \in {"calculated", "transformed"}
\* the editor has rebased the cursor over the operation
Transformed == editor.pc = "transformed"

\* C21: calculateTextOperation(A, A, pos) is no operation, for every text A
\* and every changePosition
C21_SameTextNoOperation ==
    (Calculated /\ editor.oldText = editor.newText) => editor.operation = NoOperation

C21_Witness ==
    /\ Calculated
    /\ editor.oldText = editor.newText
    /\ Len(editor.oldText) = MaxTextLen
    /\ editor.changePosition = 1
    /\ editor.operation = NoOperation

\* C22: whenever calculateTextOperation(A, B) is an operation, applying it to
\* A (inserting its content at its position, or removing length characters
\* from its position) gives exactly B
C22_OperationRebuildsNewText ==
    (Calculated /\ editor.operation # NoOperation) =>
        LET A == editor.oldText
            op == editor.operation
        IN IF op.type = "insert"
           THEN SubSeq(A, 1, op.position) \o op.content
                    \o SubSeq(A, op.position + 1, Len(A)) = editor.newText
           ELSE SubSeq(A, 1, op.position)
                    \o SubSeq(A, op.position + op.length + 1, Len(A)) = editor.newText

\* C23: every operation of calculateTextOperation(old, new) has a length
\* above 0; a delete has position + length <= len(old) and an insert has
\* position <= len(old)
C23_OperationWithinOldText ==
    (Calculated /\ editor.operation # NoOperation) =>
        LET op == editor.operation IN
        /\ op.length > 0
        /\ op.position >= 0
        /\ op.type = "delete" => op.position + op.length <= Len(editor.oldText)
        /\ op.type = "insert" => op.position <= Len(editor.oldText)

\* a delete that ends at the end of the old text, from a replacement
C23_Witness ==
    /\ Calculated
    /\ editor.operation # NoOperation
    /\ editor.operation.type = "delete"
    /\ editor.operation.position + editor.operation.length = Len(editor.oldText)
    /\ editor.newText # <<>>
    /\ Len(editor.oldText) = MaxTextLen

\* the length of the longest common prefix of two texts
LongestCommonPrefix(oldText, newText) ==
    CHOOSE p \in 0..Min(Len(oldText), Len(newText)) :
        /\ SubSeq(oldText, 1, p) = SubSeq(newText, 1, p)
        /\ \A q \in (p + 1)..Min(Len(oldText), Len(newText)) :
                SubSeq(oldText, 1, q) # SubSeq(newText, 1, q)

\* the length of the longest common suffix that leaves the common prefix p alone
LongestCommonSuffix(oldText, newText, p) ==
    LET most == Min(Len(oldText), Len(newText)) - p
        Same(n) == SubSeq(oldText, Len(oldText) - n + 1, Len(oldText))
                     = SubSeq(newText, Len(newText) - n + 1, Len(newText))
    IN CHOOSE s \in 0..most : Same(s) /\ \A q \in (s + 1)..most : ~Same(q)

\* the part of text between a prefix of p and a suffix of s characters
Middle(text, p, s) == SubSeq(text, p + 1, Len(text) - s)

\* C24: with p the longest common prefix and s the longest common suffix
\* within what the prefix leaves, an empty old middle and a non-empty new one
\* give an insert at p of the new middle, and an empty new middle and a
\* non-empty old one give a delete at p of the length of the old middle
C24_PureInsertAndDelete ==
    Calculated =>
        LET p == LongestCommonPrefix(editor.oldText, editor.newText)
            s == LongestCommonSuffix(editor.oldText, editor.newText, p)
            oldMiddle == Middle(editor.oldText, p, s)
            newMiddle == Middle(editor.newText, p, s)
        IN
        /\ (oldMiddle = <<>> /\ newMiddle # <<>>) =>
                editor.operation = [type |-> "insert", position |-> p,
                                    length |-> Len(newMiddle), content |-> newMiddle]
        /\ (newMiddle = <<>> /\ oldMiddle # <<>>) =>
                editor.operation = [type |-> "delete", position |-> p,
                                    length |-> Len(oldMiddle)]

\* one character inserted between two others
C24_Witness ==
    /\ Calculated
    /\ editor.oldText = <<"a", "b">>
    /\ editor.newText = <<"a", NL, "b">>
    /\ editor.operation = [type |-> "insert", position |-> 1,
                           length |-> 1, content |-> <<NL>>]

\* C25: when the old and the new middle are both non-empty the operation is
\* an insert at p of the difference of their lengths with the new middle as
\* content when the new middle is longer, a delete at p of the difference when
\* it is shorter, and no operation when the lengths are equal
C25_Replacement ==
    Calculated =>
        LET p == LongestCommonPrefix(editor.oldText, editor.newText)
            s == LongestCommonSuffix(editor.oldText, editor.newText, p)
            oldMiddle == Middle(editor.oldText, p, s)
            newMiddle == Middle(editor.newText, p, s)
        IN
        (oldMiddle # <<>> /\ newMiddle # <<>>) =>
            /\ Len(newMiddle) > Len(oldMiddle) =>
                    editor.operation =
                        [type |-> "insert", position |-> p,
                         length |-> Len(newMiddle) - Len(oldMiddle),
                         content |-> newMiddle]
            /\ Len(newMiddle) < Len(oldMiddle) =>
                    editor.operation =
                        [type |-> "delete", position |-> p,
                         length |-> Len(oldMiddle) - Len(newMiddle)]
            /\ Len(newMiddle) = Len(oldMiddle) => editor.operation = NoOperation

\* two characters replaced by one, after a common first character
C25_Witness ==
    /\ Calculated
    /\ editor.oldText = <<"a", "b", NL>>
    /\ editor.newText = <<"a", "a">>
    /\ editor.operation = [type |-> "delete", position |-> 1, length |-> 1]

\* the line of offset position in text
LineOf(text, position) == Cardinality({i \in 1..Min(position, Len(text)) : text[i] = NL})
\* the column of offset position in text
ColumnOf(text, position) ==
    Cardinality({i \in 1..Min(position, Len(text)) :
                    \A j \in i..Min(position, Len(text)) : text[j] # NL})
\* the text has no newline
OneLine(text) == \A i \in 1..Len(text) : text[i] # NL

\* C26: an insert at offset k of length L whose inserted text has no newline
\* moves a cursor of the same line at an offset >= k by exactly +L and leaves
\* a cursor of that line before k at its offset
C26_InsertOnCursorLine ==
    (/\ Transformed
     /\ editor.operation.type = "insert"
     /\ OneLine(editor.operation.content)
     /\ LineOf(editor.oldText, editor.cursorPosition)
            = LineOf(editor.oldText, editor.operation.position)) =>
        IF editor.cursorPosition >= editor.operation.position
        THEN editor.result.position = editor.cursorPosition + editor.operation.length
        ELSE editor.result.position = editor.cursorPosition

\* the number of newlines of text
Newlines(text) == Cardinality({i \in 1..Len(text) : text[i] = NL})

\* C27: an insert on a line above the cursor's moves the cursor by op.length
\* when the inserted text has no newline and k lines down at the same column
\* of the new text when it has k newlines; an insert on a line below leaves
\* the offset alone with wasUnchanged = TRUE
C27_InsertOnOtherLine ==
    (Transformed /\ editor.operation.type = "insert") =>
        LET op == editor.operation
            cursorLine == LineOf(editor.oldText, editor.cursorPosition)
            operationLine == LineOf(editor.oldText, op.position)
            k == Newlines(op.content)
        IN
        /\ (operationLine < cursorLine /\ k = 0) =>
                editor.result.position = editor.cursorPosition + op.length
        /\ (operationLine < cursorLine /\ k > 0) =>
                /\ editor.result.position \in 0..Len(editor.newText)
                /\ LineOf(editor.newText, editor.result.position) = cursorLine + k
                /\ ColumnOf(editor.newText, editor.result.position)
                        = ColumnOf(editor.oldText, editor.cursorPosition)
        /\ operationLine > cursorLine =>
                editor.result = [position |-> editor.cursorPosition, wasUnchanged |-> TRUE]

\* C28: a delete whose span strictly contains the cursor offset and starts on
\* the cursor's line rebases the cursor to op.position with wasUnchanged =
\* FALSE, also when the span goes on past the end of the cursor's line
C28_DeleteAroundCursor ==
    (/\ Transformed
     /\ editor.operation.type = "delete"
     /\ editor.operation.position < editor.cursorPosition
     /\ editor.cursorPosition < editor.operation.position + editor.operation.length
     /\ LineOf(editor.oldText, editor.operation.position)
            = LineOf(editor.oldText, editor.cursorPosition)) =>
        editor.result = [position |-> editor.operation.position, wasUnchanged |-> FALSE]

\* the operation is a delete and the new text is the old one without its span
PureDeletion ==
    /\ editor.operation.type = "delete"
    /\ editor.newText =
            SubSeq(editor.oldText, 1, editor.operation.position)
                \o SubSeq(editor.oldText,
                          editor.operation.position + editor.operation.length + 1,
                          Len(editor.oldText))

\* C29: a pure deletion that lies entirely before the cursor, on the cursor's
\* line or ending on an earlier line, rebases the cursor to cursor - op.length;
\* for a span ending on an earlier line that is the same column on the line
\* moved up by the number of newlines removed
C29_PureDeleteBeforeCursor ==
    (Transformed /\ PureDeletion) =>
        LET op == editor.operation
            cursorLine == LineOf(editor.oldText, editor.cursorPosition)
            operationLine == LineOf(editor.oldText, op.position)
            endLine == LineOf(editor.oldText, op.position + op.length)
            removed == Newlines(editor.oldText) - Newlines(editor.newText)
        IN
        /\ (/\ op.position + op.length <= editor.cursorPosition
            /\ \/ operationLine = cursorLine /\ endLine = cursorLine
               \/ endLine < cursorLine) =>
                editor.result.position = editor.cursorPosition - op.length
        /\ endLine < cursorLine =>
                /\ LineOf(editor.newText, editor.result.position) = cursorLine - removed
                /\ ColumnOf(editor.newText, editor.result.position)
                        = ColumnOf(editor.oldText, editor.cursorPosition)

\* a line and its newline are deleted two lines above the cursor
C29_Witness ==
    /\ Transformed
    /\ PureDeletion
    /\ editor.oldText = <<"a", NL, NL>>
    /\ editor.newText = <<NL>>
    /\ editor.cursorPosition = 3
    /\ editor.operation = [type |-> "delete", position |-> 0, length |-> 2]
    /\ editor.result.position = 1

PreviousCode(state, data) ==
    IF data.oldCode # <<>> THEN data.oldCode
    ELSE IF state.currentFile # NullFile THEN state.currentFile.code ELSE <<>>

\* the texts are identical or differ by a replacement of equal length
NoNetChange(oldText, newText) ==
    LET p == LongestCommonPrefix(oldText, newText)
        s == LongestCommonSuffix(oldText, newText, p)
    IN \/ oldText = newText
       \/ /\ Middle(oldText, p, s) # <<>>
          /\ Len(Middle(oldText, p, s)) = Len(Middle(newText, p, s))

\* C31: when the texts of an update are identical or differ by a replacement
\* of equal length, applying the update leaves the cursor the client holds for
\* every participant as it was
C31_NoOperationKeepsCursors ==
    [][\A m \in emitted' :
          (/\ m.event = "code_updated" /\ Me \in m.to
           /\ NoNetChange(PreviousCode(client, m.data), m.data.code))
              => \A u \in Conns : CursorHeld(client', u) = CursorHeld(client, u)]_vars

\* an edit that replaced one character by another has been applied while the
\* client held a cursor
C31_Witness ==
    \E m \in emitted :
        /\ m.event = "code_updated" /\ Me \in m.to
        /\ m.data.oldCode = <<"a">> /\ m.data.code = <<"b">>
        /\ client.currentFile.code = <<"b">>
        /\ client.previousCode = <<"a">>
        /\ \E u \in Conns : CursorHeld(client, u) = 1

\* C32: transformMultipleCursors returns one result per input cursor, in input
\* order and with the same userId, whose position and wasUnchanged are those
\* of transformCursorPosition applied to that cursor alone
C32_BatchIsPerCursor ==
    editor.pc = "batch" =>
        /\ Len(editor.results) = Len(editor.cursors)
        /\ \A i \in 1..Len(editor.cursors) :
              LET alone == transformCursorPosition(editor.cursors[i].position,
                               editor.operation, editor.oldText, editor.newText)
              IN editor.results[i] =
                    [userId |-> editor.cursors[i].userId,
                     position |-> alone.position,
                     wasUnchanged |-> alone.wasUnchanged]

\* two cursors of different users that the operation moves differently
C32_Witness ==
    /\ editor.pc = "batch"
    /\ Len(editor.cursors) = 2
    /\ editor.cursors[1].userId = "c2"
    /\ editor.results[1].userId = "c2"
    /\ editor.results[1].position # editor.results[2].position
    /\ editor.results[1].wasUnchanged # editor.results[2].wasUnchanged

\* const oldCode = state.currentFile.code: the old text of the cursor rebase
\* of updateCode
RebaseOldCode(state) ==
    IF state.currentFile # NullFile THEN state.currentFile.code ELSE <<>>

C34_PositionWithinNewText ==
    Transformed => editor.result.position \in 0..Len(editor.newText)

\* C39: for every operation of calculateTextOperation(old, new) and every
\* cursor offset of old, a result with wasUnchanged = TRUE has the position
\* of the input cursor
C39_UnchangedKeepsOffset ==
    (Transformed /\ editor.result.wasUnchanged) =>
        editor.result.position = editor.cursorPosition

\* an insert after the cursor on the cursor's line
C39_Witness ==
    /\ Transformed
    /\ editor.result.wasUnchanged
    /\ editor.operation.type = "insert"
    /\ editor.operation.position > editor.cursorPosition
    /\ LineOf(editor.oldText, editor.operation.position)
            = LineOf(editor.oldText, editor.cursorPosition)
    /\ editor.cursorPosition > 0
    /\ editor.result.position = editor.cursorPosition

\* ----------------------------------------------------- claims on the rooms
\* C35: the text of the joined_room of a new member is the text stored when
\* the caller becomes a member, unless a code_update of that room is still in flight, whose
\* code_updated the new member will get
C35_JoinTextIsCurrent ==
    [][\A i \in DOMAIN inflight :
          (/\ ResumeStep(i)
           /\ JoinError(inflight[i], expired[inflight[i].roomId]) = ""
           /\ inflight[i].client \notin Members(roomUsers, inflight[i].roomId))
              => LET r == inflight[i].roomId IN
                 \/ inflight[i].code = store'[r].code
                 \/ \E j \in DOMAIN inflight' :
                       /\ inflight'[j].kind = "code_update"
                       /\ inflight'[j].roomId = r]_vars

\* the user_left events of a step that name c as the user who left room r
UserLeftOf(events, c, r) ==
    {m \in events : m.event = "user_left" /\ m.room = r /\ m.data.user.id = c}

\* C36: a member leaving a room that keeps other members causes exactly one
\* user_left to them, and a leave_room or disconnect of a connection that is
\* a member of no room broadcasts nothing
C36_OneUserLeftPerDeparture ==
    [][/\ \A c \in Conns, r \in Rooms :
              (/\ c \in Members(roomUsers, r)
               /\ c \notin Members(roomUsers', r)
               /\ Members(roomUsers', r) # {})
                  => /\ Cardinality(UserLeftOf(emitted', c, r)) = 1
                     /\ \A m \in UserLeftOf(emitted', c, r) :
                           m.to = Members(roomUsers', r)
       /\ \A c \in Conns :
              (/\ LeaveRoom(c) \/ Disconnect(c)
               /\ \A r \in Rooms : c \notin Members(roomUsers, r))
                  => emitted' = {}]_vars

\* C37: whenever the client is connected and in a room, the currentUserId of
\* its state is its own connection id, whatever connect, page load, join and
\* leave events came before.
C37_OwnIdWhileInRoom ==
    (client.isConnected /\ client.isInRoom) => client.currentUserId = Me

\* the user_joined and user_left events the last step sent to the client of Me
RosterEvents(events) ==
    {m \in events : m.event \in {"user_joined", "user_left"} /\ Me \in m.to}

\* C38: applying user_joined or user_left events leaves the cursor the client
\* holds for a participant as it was, when that participant was in the
\* client's list before and is in every roster the events carry.
C38_RosterKeepsCursors ==
    [][\A u \in Conns :
          (/\ Has(client.users, u)
           /\ RosterEvents(emitted') # {}
           /\ \A m \in RosterEvents(emitted') : u \in {x.id : x \in m.data.users})
              => CursorHeld(client', u) = CursorHeld(client, u)]_vars

\* C40: after the leave button of the editor, getSession returns null, so the
\* auto-join of the next RoomPage finds no saved nickname.
C40_LeaveClearsSession ==
    [][LeaveButton => getSession(page'.localStorage) = Null]_vars

====
